---- MODULE Spec2Model ----
(***************************************************************************)
(* Model of the static-site pipeline: update_site.py (metadata-driven      *)
(* index / tag pages / sitemap) and generate.py (CSV rows into a template). *)
(* Text is modelled character by character: a Python str is a sequence of  *)
(* one-character strings.                                                  *)
(***************************************************************************)
EXTENDS Integers, Sequences, FiniteSets, TLC

(***************************************************************************)
(* Characters and the str methods the code calls                           *)
(***************************************************************************)

\* the printable ASCII characters in code-point order, 32 .. 126 ("GRAVE"
\* stands for the backquote, which a TLA+ string cannot hold)
Printable ==
  <<" ","!","\"","#","$","%","&","'","(",")","*","+",",","-",".","/",
    "0","1","2","3","4","5","6","7","8","9",":",";","<","=",">","?",
    "@","A","B","C","D","E","F","G","H","I","J","K","L","M","N","O",
    "P","Q","R","S","T","U","V","W","X","Y","Z","[","\\","]","^","_",
    "GRAVE","a","b","c","d","e","f","g","h","i","j","k","l","m","n","o",
    "p","q","r","s","t","u","v","w","x","y","z","{","|","}","~">>

CharSet == {Printable[i] : i \in 1..Len(Printable)} \cup {"\t", "\n", "\r"}

\* code point of a character
OrdTable ==
  [c \in CharSet |->
     IF c = "\t" THEN 9 ELSE IF c = "\n" THEN 10 ELSE IF c = "\r" THEN 13
     ELSE 31 + (CHOOSE i \in 1..Len(Printable) : Printable[i] = c)]

ord(c) == OrdTable[c]

chr(n) == Printable[n - 31]

\* str.isspace on one character (the whitespace str.strip and \s know)
is_space(c) == c \in {" ", "\t", "\n", "\r"}

\* s[i:] and s[:i] with 0-based Python indices
drop(s, i) == SubSeq(s, i + 1, Len(s))

take(s, i) == SubSeq(s, 1, i)

\* str.startswith(prefix, i), i 0-based
starts_at(s, i, prefix) ==
  /\ i + Len(prefix) <= Len(s)
  /\ \A k \in 1..Len(prefix) : s[i + k] = prefix[k]

\* the least element of a non-empty set of integers
least(S) == CHOOSE x \in S : \A y \in S : x <= y

\* str.find(sub, start): least 0-based index >= start, or -1
str_find(s, sub, start) ==
  LET hits == {i \in start..(Len(s) - Len(sub)) : starts_at(s, i, sub)}
  IN  IF hits = {} THEN -1 ELSE least(hits)

\* str.lower on ASCII text
str_lower(s) ==
  [i \in 1..Len(s) |->
     IF ord(s[i]) >= 65 /\ ord(s[i]) <= 90 THEN chr(ord(s[i]) + 32) ELSE s[i]]

RECURSIVE lstrip(_)
lstrip(s) == IF s # <<>> /\ is_space(Head(s)) THEN lstrip(Tail(s)) ELSE s

RECURSIVE rstrip(_)
rstrip(s) ==
  IF s # <<>> /\ is_space(s[Len(s)]) THEN rstrip(take(s, Len(s) - 1)) ELSE s

\* str.strip()
str_strip(s) == rstrip(lstrip(s))

\* str.splitlines(): breaks at \n, \r and \r\n; no empty last line
RECURSIVE str_splitlines(_)
str_splitlines(s) ==
  LET breaks == {i \in 1..Len(s) : s[i] \in {"\n", "\r"}}
  IN  IF s = <<>> THEN <<>>
      ELSE IF breaks = {} THEN <<s>>
      ELSE LET b == least(breaks)
               n == IF s[b] = "\r" /\ b < Len(s) /\ s[b + 1] = "\n" THEN b + 1 ELSE b
           IN  <<take(s, b - 1)>> \o str_splitlines(drop(s, n))

\* str.split(sep) for a one-character sep: every piece, empty ones included
RECURSIVE str_split(_, _)
str_split(s, sep) ==
  LET i == str_find(s, <<sep>>, 0)
  IN  IF i = -1 THEN <<s>>
      ELSE <<take(s, i)>> \o str_split(drop(s, i + 1), sep)

\* str.split(sep, 1) on a string that contains sep: <<before, after>>
str_split1(s, sep) ==
  LET i == str_find(s, <<sep>>, 0)
  IN  <<take(s, i), drop(s, i + 1)>>

\* "sep".join(parts)
RECURSIVE str_join(_, _)
str_join(sep, parts) ==
  IF parts = <<>> THEN <<>>
  ELSE IF Len(parts) = 1 THEN parts[1]
  ELSE parts[1] \o sep \o str_join(sep, Tail(parts))

\* str.replace(old, new): leftmost non-overlapping occurrences, old non-empty
RECURSIVE str_replace(_, _, _)
str_replace(s, old, new) ==
  LET i == str_find(s, old, 0)
  IN  IF i = -1 THEN s
      ELSE take(s, i) \o new \o str_replace(drop(s, i + Len(old)), old, new)

\* str.endswith(suffix)
str_endswith(s, suffix) ==
  Len(s) >= Len(suffix) /\ drop(s, Len(s) - Len(suffix)) = suffix

\* Python's < on str: lexicographic by code point
RECURSIVE str_less(_, _)
str_less(a, b) ==
  IF b = <<>> THEN FALSE
  ELSE IF a = <<>> THEN TRUE
  ELSE IF Head(a) = Head(b) THEN str_less(Tail(a), Tail(b))
  ELSE ord(Head(a)) < ord(Head(b))

(***************************************************************************)
(* update_site.py: configuration                                           *)
(***************************************************************************)

BASE_URL == <<"h","t","t","p","s",":","/","/","c","o","m","p","a","r","e","-","a","y","t","h","i","n","g",".","c","o","m">>

PAGES_DIR == <<"p","a","g","e","s">>

TAGS_DIR == <<"t","a","g","s">>

(***************************************************************************)
(* update_site.py: parse_meta_from_html                                    *)
(***************************************************************************)

\* index just past the run of whitespace starting at 0-based i  (\s*)
skip_space(s, i) ==
  least({j \in i..Len(s) : j = Len(s) \/ ~is_space(s[j + 1])})

\* the group a greedy (.*) takes: up to the last "-->"
GreedyGroup(s, g) ==
  LET ends == {e \in g..Len(s) : starts_at(s, e, <<"-","-",">">>)}
  IN  IF ends = {} THEN [found |-> FALSE, group |-> <<>>]
      ELSE LET e == CHOOSE e \in ends : \A x \in ends : x <= e
           IN  [found |-> TRUE, group |-> SubSeq(s, g + 1, e)]

\* the group of (.*?)--> from 0-based position g: up to the first "-->"
LazyGroup(s, g) ==
  LET e == str_find(s, <<"-","-",">">>, g)
  IN  IF e = -1 THEN [found |-> FALSE, group |-> <<>>]
      ELSE [found |-> TRUE, group |-> SubSeq(s, g + 1, e)]

match_at(s, i) ==
  IF ~starts_at(s, i, <<"<","!","-","-">>) THEN [found |-> FALSE, group |-> <<>>]
  ELSE LET j == skip_space(s, i + 4)
       IN  IF j + 4 <= Len(s) /\ str_lower(SubSeq(s, j + 1, j + 4)) = <<"m","e","t","a">>
           THEN LazyGroup(s, j + 4)
           ELSE [found |-> FALSE, group |-> <<>>]

\* re.search: the match at the least start position
re_search(s) ==
  LET hits == {i \in 0..Len(s) : match_at(s, i).found}
  IN  IF hits = {} THEN [found |-> FALSE, group |-> <<>>]
      ELSE match_at(s, least(hits))

EmptyMeta == [k \in {} |-> <<>>]

has_key(meta, k) == k \in DOMAIN meta

\* meta[key] = value
dict_set(meta, key, value) ==
  [k \in DOMAIN meta \cup {key} |-> IF k = key THEN value ELSE meta[k]]

\* one iteration of the loop over block.splitlines()
meta_line(meta, raw) ==
  LET line == str_strip(raw)
  IN  IF line = <<>> \/ str_find(line, <<":">>, 0) = -1 THEN meta
      ELSE LET kv == str_split1(line, ":")
           IN  dict_set(meta, str_lower(str_strip(kv[1])), str_strip(kv[2]))

RECURSIVE meta_loop(_, _)
meta_loop(meta, lines) ==
  IF lines = <<>> THEN meta
  ELSE meta_loop(meta_line(meta, Head(lines)), Tail(lines))

parse_meta_from_html(text) ==
  LET m == re_search(text)
  IN  IF m.found THEN meta_loop(EmptyMeta, str_splitlines(m.group))
      ELSE EmptyMeta

(***************************************************************************)
(* update_site.py: get_page_info                                           *)
(* A content file is [rel, text, mtime]: rel its path below pages/ as a    *)
(* sequence of components, text its content, mtime its st_mtime in whole   *)
(* seconds.  tz is the local UTC offset in seconds (datetime.fromtimestamp *)
(* answers in local time).                                                 *)
(***************************************************************************)

\* the path separator of the host (POSIX)
os_sep == <<"/">>

\* str(path)
path_str(parts) == str_join(os_sep, parts)

\* str.rfind of one character: greatest 0-based index, or -1
str_rfind(s, c) ==
  LET hits == {i \in 0..(Len(s) - 1) : s[i + 1] = c}
  IN  IF hits = {} THEN -1 ELSE CHOOSE i \in hits : \A j \in hits : j <= i

\* PurePath.stem: the last component up to its last dot, unless the dot is
\* the first or the last character
path_stem(parts) ==
  LET name == parts[Len(parts)]
      i == str_rfind(name, ".")
  IN  IF 0 < i /\ i < Len(name) - 1 THEN take(name, i) ELSE name

\* the proleptic Gregorian date of a day number (days since 1970-01-01),
\* as localtime computes it
civil_from_days(days) ==
  LET z    == days + 719468
      era  == z \div 146097
      doe  == z - era * 146097
      yoe  == (doe - doe \div 1460 + doe \div 36524 - doe \div 146096) \div 365
      doy  == doe - (365 * yoe + yoe \div 4 - yoe \div 100)
      mp   == (5 * doy + 2) \div 153
      d    == doy - (153 * mp + 2) \div 5 + 1
      m    == IF mp < 10 THEN mp + 3 ELSE mp - 9
      y    == yoe + era * 400 + (IF m <= 2 THEN 1 ELSE 0)
  IN  [year |-> y, month |-> m, day |-> d]

digit(n) == chr(48 + n)

\* %m, %d: two digits, zero padded
two_digits(n) == <<digit(n \div 10), digit(n % 10)>>

\* %Y for the years 1000 .. 9999
four_digits(n) ==
  <<digit(n \div 1000), digit((n \div 100) % 10), digit((n \div 10) % 10), digit(n % 10)>>

\* datetime.fromtimestamp(ts).strftime("%Y-%m-%d")
format_mtime(ts, tz) ==
  LET c == civil_from_days((ts + tz) \div 86400)
  IN  four_digits(c.year) \o <<"-">> \o two_digits(c.month) \o <<"-">> \o two_digits(c.day)

\* [t.strip() for t in pieces]
strip_all(pieces) == [i \in 1..Len(pieces) |-> str_strip(pieces[i])]

\* [t.strip() for t in pieces if t.strip()]
RECURSIVE strip_nonempty(_)
strip_nonempty(pieces) ==
  IF pieces = <<>> THEN <<>>
  ELSE IF str_strip(Head(pieces)) # <<>>
       THEN <<str_strip(Head(pieces))>> \o strip_nonempty(Tail(pieces))
  ELSE strip_nonempty(Tail(pieces))

\* title = meta.get("title", rel.stem)
page_title_if_absent(meta, rel) ==
  IF has_key(meta, <<"t","i","t","l","e">>) THEN meta[<<"t","i","t","l","e">>] ELSE path_stem(rel)

\* title = meta.get("title") or rel.stem
page_title(meta, rel) ==
  IF has_key(meta, <<"t","i","t","l","e">>) /\ meta[<<"t","i","t","l","e">>] # <<>> THEN meta[<<"t","i","t","l","e">>]
  ELSE path_stem(rel)

\* tags = [] unless "tags" in meta
page_tags(meta) ==
  IF has_key(meta, <<"t","a","g","s">>) THEN strip_nonempty(str_split(meta[<<"t","a","g","s">>], ","))
  ELSE <<>>

\* date: the metadata value, else the formatted modification time
page_date(meta, mtime, tz) ==
  IF has_key(meta, <<"d","a","t","e">>) THEN str_strip(meta[<<"d","a","t","e">>])
  ELSE format_mtime(mtime, tz)

\* meta.get(key, "")
meta_get(meta, key) == IF has_key(meta, key) THEN meta[key] ELSE <<>>

\* the Page record built from an already parsed metadata mapping
page_info(file, meta, tz) ==
  LET rel_str  == str_replace(path_str(file.rel), os_sep, <<"/">>)
      url_path == PAGES_DIR \o <<"/">> \o rel_str
  IN  [path        |-> file.rel,
       rel_path    |-> rel_str,
       url_path    |-> url_path,
       url         |-> BASE_URL \o <<"/">> \o url_path,
       title       |-> page_title(meta, file.rel),
       description |-> meta_get(meta, <<"d","e","s","c","r","i","p","t","i","o","n">>),
       tags        |-> page_tags(meta),
       category    |-> meta_get(meta, <<"c","a","t","e","g","o","r","y">>),
       date        |-> page_date(meta, file.mtime, tz)]

get_page_info(file, tz) == page_info(file, parse_meta_from_html(file.text), tz)

(***************************************************************************)
(* The content files the runs are checked on: a file is named by its index *)
(* in Catalogue                                                            *)
(***************************************************************************)

Catalogue ==
  << [rel |-> <<<<"a",".","h","t","m","l">>>>, mtime |-> 1704067200,
      text |-> <<"<","!","-","-"," ","M","E","T","A","\n","t","i","t","l","e",":"," ","A","l","p","h","a","\n","t","a","g","s",":"," ","x",",","y","\n","d","a","t","e",":"," ","2","0","2","4","-","0","1","-","0","1","\n","-","-",">","\n","<","p",">","a","<","/","p",">">>],
     [rel |-> <<<<"b",".","h","t","m","l">>>>, mtime |-> 1704153599,
      text |-> <<"<","p",">","b","<","/","p",">">>],
     [rel |-> <<<<"s","u","b">>, <<"c",".","H","T","M","L">>>>, mtime |-> 1704067200,
      text |-> <<"<","!","-","-","m","e","t","a","\n","t","a","g","s",":"," ","x",","," ","x","\n","D","a","t","e",":"," ","2","0","2","4","-","0","1","-","0","1","\n","-","-",">">>],
     [rel |-> <<<<"n","o","t","e","s",".","t","x","t">>>>, mtime |-> 1704067200,
      text |-> <<"<","!","-","-"," ","M","E","T","A","\n","t","a","g","s",":"," ","w","\n","-","-",">">>] >>

FileIds == 1..Len(Catalogue)

\* local UTC offsets of the host, in seconds
UtcOffsets == {0, 32400}

\* get_page_info of every file of the catalogue, computed once
CatalogueInfo ==
  [t \in UtcOffsets |-> [f \in FileIds |-> get_page_info(Catalogue[f], t)]]

(***************************************************************************)
(* update_site.py: collect_pages                                           *)
(***************************************************************************)

\* seq[:k] + [e] + seq[k:]
insert_at(seq, k, e) == take(seq, k) \o <<e>> \o drop(seq, k)

\* place p in an already sorted list: after every page whose date is not
\* smaller, so pages of equal date keep their order of arrival
insert_desc(sorted, p) ==
  LET smaller == {k \in 1..Len(sorted) : str_less(sorted[k].date, p.date)}
      at == IF smaller = {} THEN Len(sorted)
            ELSE (CHOOSE k \in smaller : \A j \in smaller : k <= j) - 1
  IN  insert_at(sorted, at, p)

\* as insert_desc, but a page goes before the pages of equal date: what
\* sorting ascending and reversing the list does
insert_desc_reversed(sorted, p) ==
  LET notlarger == {k \in 1..Len(sorted) : ~str_less(p.date, sorted[k].date)}
      at == IF notlarger = {} THEN Len(sorted)
            ELSE (CHOOSE k \in notlarger : \A j \in notlarger : k <= j) - 1
  IN  insert_at(sorted, at, p)

RECURSIVE sort_into_reversed(_, _)
sort_into_reversed(sorted, rest) ==
  IF rest = <<>> THEN sorted
  ELSE sort_into_reversed(insert_desc_reversed(sorted, Head(rest)), Tail(rest))

sort_ascending_then_reverse(pages) == sort_into_reversed(<<>>, pages)

RECURSIVE sort_into(_, _)
sort_into(sorted, rest) ==
  IF rest = <<>> THEN sorted
  ELSE sort_into(insert_desc(sorted, Head(rest)), Tail(rest))

\* list.sort(key=lambda p: p["date"], reverse=True)
sort_by_date_desc(pages) == sort_into(<<>>, pages)

\* name.lower().endswith(".html")
is_html(f) ==
  str_endswith(str_lower(Catalogue[f].rel[Len(Catalogue[f].rel)]), <<".","h","t","m","l">>)

RECURSIVE scan_files(_, _)
scan_files(files, tz) ==
  IF files = <<>> THEN <<>>
  ELSE IF is_html(Head(files))
       THEN <<CatalogueInfo[tz][Head(files)]>> \o scan_files(Tail(files), tz)
  ELSE scan_files(Tail(files), tz)

\* files: what os.walk(PAGES_DIR) yields, in its order
collect_pages(files, tz) == sort_by_date_desc(scan_files(files, tz))

(***************************************************************************)
(* update_site.py: the renderers.  A document is modelled by the values    *)
(* interpolated into its f-string; the markup around them is constant.     *)
(***************************************************************************)

NoIndex == [exists |-> FALSE, items |-> <<>>, updated_at |-> 0]

NoSitemap == [exists |-> FALSE, locs |-> <<>>]

NoTagsDir == [exists |-> FALSE, files |-> <<>>]

\* now: the UTC clock in minutes ("%Y-%m-%d %H:%M UTC")
generate_index_html(pages, now) ==
  [exists |-> TRUE,
   items |-> [i \in 1..Len(pages) |->
                [url_path |-> pages[i].url_path, title |-> pages[i].title,
                 date |-> pages[i].date, tags |-> pages[i].tags]],
   updated_at |-> now]

\* every (tag, page) pair in the order the two loops meet them
RECURSIVE tag_pairs(_)
tag_pairs(pages) ==
  IF pages = <<>> THEN <<>>
  ELSE [i \in 1..Len(Head(pages).tags) |-> [tag |-> Head(pages).tags[i], page |-> Head(pages)]]
       \o tag_pairs(Tail(pages))

\* the keys of tags_map in insertion order
RECURSIVE tag_order(_, _)
tag_order(pairs, seen) ==
  IF pairs = <<>> THEN <<>>
  ELSE IF Head(pairs).tag \in seen THEN tag_order(Tail(pairs), seen)
  ELSE <<Head(pairs).tag>> \o tag_order(Tail(pairs), seen \cup {Head(pairs).tag})

\* tags_map[tag]
RECURSIVE tag_list(_, _)
tag_list(pairs, tag) ==
  IF pairs = <<>> THEN <<>>
  ELSE IF Head(pairs).tag = tag THEN <<Head(pairs).page>> \o tag_list(Tail(pairs), tag)
  ELSE tag_list(Tail(pairs), tag)

\* the document written to tags/<tag>.html
tag_document(tag, tag_pages) ==
  LET sorted == sort_by_date_desc(tag_pages)
  IN  [name |-> tag \o <<".","h","t","m","l">>,
       tag |-> tag,
       items |-> [i \in 1..Len(sorted) |->
                    [url_path |-> sorted[i].url_path, title |-> sorted[i].title,
                     date |-> sorted[i].date]]]

\* Path.write_text in a directory listed as the sequence files: an existing
\* name keeps its place, a new name may land anywhere in the listing
write_text(files, doc) ==
  IF \E i \in 1..Len(files) : files[i].name = doc.name
  THEN {[i \in 1..Len(files) |-> IF files[i].name = doc.name THEN doc ELSE files[i]]}
  ELSE {insert_at(files, k, doc) : k \in 0..Len(files)}

RECURSIVE write_tag_pages(_, _, _)
write_tag_pages(listings, tags, pairs) ==
  IF tags = <<>> THEN listings
  ELSE write_tag_pages(
         UNION {write_text(files, tag_document(Head(tags), tag_list(pairs, Head(tags)))) :
                  files \in listings},
         Tail(tags), pairs)

\* the listings of tags/ that generate_tag_pages can leave behind
generate_tag_pages(dir, pages) ==
  LET pairs == tag_pairs(pages)
  IN  {[exists |-> TRUE, files |-> files] :
         files \in write_tag_pages({dir.files}, tag_order(pairs, {}), pairs)}

\* Path(TAGS_DIR).glob("*.html")
glob_html(dir) ==
  SelectSeq(dir.files, LAMBDA f : str_endswith(f.name, <<".","h","t","m","l">>))

generate_sitemap_xml(pages, dir) ==
  LET tag_files == glob_html(dir)
  IN  [exists |-> TRUE,
       locs |-> <<BASE_URL \o <<"/">>>>
                \o [i \in 1..Len(pages) |-> pages[i].url]
                \o [i \in 1..Len(tag_files) |->
                      BASE_URL \o <<"/">> \o TAGS_DIR \o <<"/">> \o tag_files[i].name]]

(***************************************************************************)
(* update_site.py: main                                                    *)
(***************************************************************************)

\* Path(PAGES_DIR).exists()
path_exists(kind) == kind # "missing"

\* Path(PAGES_DIR).is_dir()
is_dir(kind) == kind = "dir"

\* as render_all, with the sitemap rendered before the tag pages
render_sitemap_first(out, pages, now) ==
  {[index |-> generate_index_html(pages, now),
    tags |-> dir,
    sitemap |-> generate_sitemap_xml(pages, out.tags)] :
     dir \in generate_tag_pages(out.tags, pages)}

\* the three renderers in the order main calls them; out is the output tree
\* [index, tags, sitemap] before the run
render_all(out, pages, now) ==
  {[index |-> generate_index_html(pages, now),
    tags |-> dir,
    sitemap |-> generate_sitemap_xml(pages, dir)] :
     dir \in generate_tag_pages(out.tags, pages)}

\* the output trees a run of main can leave, and the pages it collected
main(out, kind, files, tz, now) ==
  IF ~is_dir(kind) THEN {[out |-> out, pages |-> <<>>]}
  ELSE LET pages == collect_pages(files, tz)
       IN  {[out |-> o, pages |-> pages] : o \in render_all(out, pages, now)}

MaxFiles == 2

MaxClock == 1

\* os.walk lists a directory's own files before it descends
walk_ok(w) ==
  \A i, j \in 1..Len(w) :
     i < j => ~(Len(Catalogue[w[i]].rel) > 1 /\ Len(Catalogue[w[j]].rel) = 1)

(***************************************************************************)
(* generate.py: the row loop.  A row of csv.DictReader is a sequence of    *)
(* cells [key, value, none] in column order; none marks the None a short   *)
(* row gets for a missing field.                                           *)
(***************************************************************************)

GEN_BASE_URL == <<"h","t","t","p","s",":","/","/","e","x","a","m","p","l","e",".","p","a","g","e","s",".","d","e","v">>

\* f"{{{{{key}}}}}"
placeholder(key) == <<"{","{">> \o key \o <<"}","}">>

\* value or ""
value_or_empty(cell) == IF cell.none THEN <<>> ELSE cell.value

\* for key, value in row.items(): html = html.replace(placeholder, value or "")
RECURSIVE substitute(_, _)
substitute(html, cells) ==
  IF cells = <<>> THEN html
  ELSE substitute(str_replace(html, placeholder(Head(cells).key), value_or_empty(Head(cells))),
                  Tail(cells))

\* row[key]
row_get(row, key) ==
  LET i == CHOOSE i \in 1..Len(row) : row[i].key = key
  IN  value_or_empty(row[i])

\* index.html and sitemap.xml as generate.py writes them after the loop
site_documents(pgs) ==
  [exists |-> TRUE,
   index |-> [i \in 1..Len(pgs) |-> [href |-> <<"/">> \o pgs[i].slug \o <<".","h","t","m","l">>,
                                     title |-> pgs[i].title]],
   sitemap |-> <<GEN_BASE_URL \o <<"/","i","n","d","e","x",".","h","t","m","l">>>>
               \o [i \in 1..Len(pgs) |-> GEN_BASE_URL \o <<"/">> \o pgs[i].slug \o <<".","h","t","m","l">>]]

NoSite == [exists |-> FALSE, index |-> <<>>, sitemap |-> <<>>]

NoRow == [row |-> <<>>, html |-> <<>>]

(***************************************************************************)
(* Inputs of the checks on parse_meta_from_html / get_page_info and on     *)
(* generate.py                                                             *)
(***************************************************************************)

MaxLines == 2

MaxRows == 2

MaxParts == 2

\* the sequences of length at most n over S
SeqsUpTo(S, n) == UNION {[1..k -> S] : k \in 0..n}

RECURSIVE Flatten(_)
Flatten(ss) == IF ss = <<>> THEN <<>> ELSE Head(ss) \o Flatten(Tail(ss))

\* what may precede the metadata lines: nothing, or an opening marker
MetaOpen == {<<>>, <<"<","p",">","h","i","<","/","p",">","\n","<","!","-","-"," ","M","E","T","A","\n">>, <<"<","!","-","-","\n"," ","m","e","t","a"," ">>}

MetaLines ==
  {<<"t","i","t","l","e",":"," ","A","l","p","h","a","\n">>, <<" ","T","i","t","l","e"," ",":","\n">>, <<"t","a","g","s",":"," ","a",","," ","b"," ",","," ",",","c","\n">>, <<"T","A","G","S",":"," ",",","x",",",",","x"," ","\n">>,
   <<"d","a","t","e",":"," ","9"," ","\r","\n">>, <<"n","o"," ","s","e","p","a","r","a","t","o","r","\n">>, <<"l","i","n","k",":"," ","h","t","t","p",":","/","/","e","\n">>}

MetaClose == {<<>>, <<"-","-",">">>}

\* what follows: nothing, or a second complete metadata block
MetaPost == {<<>>, <<"\n","<","!","-","-"," ","M","E","T","A","\n","t","i","t","l","e",":"," ","L","a","t","e","\n","t","a","g","s",":"," ","l","a","t","e","\n","d","a","t","e",":"," ","2","0","0","0","-","0","1","-","0","1","\n","-","-",">">>}

MetaTexts ==
  {o \o Flatten(ls) \o c \o q :
     o \in MetaOpen, ls \in SeqsUpTo(MetaLines, MaxLines), c \in MetaClose, q \in MetaPost}

MetaPaths ==
  {[rel |-> <<<<"a",".","h","t","m","l">>>>, mtime |-> 1704153599],
   [rel |-> <<<<"s","u","b">>, <<"c",".","b",".","H","T","M","L">>>>, mtime |-> 1709251199]}

MetaFiles ==
  {[rel |-> f.rel, mtime |-> f.mtime, text |-> t] : f \in MetaPaths, t \in MetaTexts}

NoFile == [rel |-> <<>>, mtime |-> 0, text |-> <<>>]

NoInfo == [path |-> <<>>, rel_path |-> <<>>, url_path |-> <<>>, url |-> <<>>,
           title |-> <<>>, description |-> <<>>, tags |-> <<>>, category |-> <<>>,
           date |-> <<>>]

cell(k, v) == [key |-> k, value |-> v, none |-> FALSE]

\* the field a short CSV row lacks
missing_cell(k) == [key |-> k, value |-> <<>>, none |-> TRUE]

Slugs == {<<"f","o","o">>, <<"b","a","r">>}

\* rows of a CSV file with the columns slug,title
RowsTwoColumns == {<<cell(<<"s","l","u","g">>, sl), cell(<<"t","i","t","l","e">>, <<"F","o","o">>)>> : sl \in Slugs}

\* rows of a CSV file with the columns slug,title,note
RowsThreeColumns ==
  {<<cell(<<"s","l","u","g">>, sl), cell(<<"t","i","t","l","e">>, <<"F","o","o">>), n>> :
     sl \in Slugs, n \in {cell(<<"n","o","t","e">>, <<"N">>), missing_cell(<<"n","o","t","e">>)}}

CsvFiles == SeqsUpTo(RowsTwoColumns, MaxRows) \cup SeqsUpTo(RowsThreeColumns, MaxRows)

TemplateParts ==
  {<<"<","h","1",">","{","{","t","i","t","l","e","}","}","<","/","h","1",">">>, <<"<","p",">","{","{","m","i","s","s","i","n","g","}","}","<","/","p",">">>, <<"<","a",">","{","{","s","l","u","g","}","}","<","/","a",">">>, <<"<","i",">","{","{","n","o","t","e","}","}","<","/","i",">">>}

Templates == {Flatten(ps) : ps \in SeqsUpTo(TemplateParts, MaxParts)}

VARIABLES
  rootKind,   \* pages/: "missing", "file" or "dir"
  walk,       \* the content files, as os.walk meets them (indices of Catalogue)
  tz,         \* local UTC offset of the host
  clock,      \* UTC time in minutes
  indexDoc,   \* index.html
  tagsDir,    \* tags/ and its files, in listing order
  sitemapDoc, \* sitemap.xml
  pages,      \* the Page list of the last run
  runs,       \* runs of main since the content last changed, capped at 2
  mFile,      \* get_page_info: the content file
  mMeta,      \* get_page_info: meta, once parse_meta_from_html returned
  mInfo,      \* get_page_info: the record returned
  mPc,        \* get_page_info: "idle", "start", "parsed" or "done"
  tTemplate,  \* generate.py: template.html
  tRows,      \* generate.py: the rows of pages.csv
  tDone,      \* generate.py: rows processed
  tLast,      \* generate.py: row and html of the last loop iteration
  tFiles,     \* generate.py: <slug>.html written, by slug
  tPages,     \* generate.py: the pages list
  tSite,      \* generate.py: index.html and sitemap.xml
  tPc         \* generate.py: "idle", "rows" or "done"

pipelineVars == <<rootKind, walk, clock, indexDoc, tagsDir, sitemapDoc, pages, runs>>

metaVars == <<mFile, mMeta, mInfo, mPc>>

tabVars == <<tTemplate, tRows, tDone, tLast, tFiles, tPages, tSite, tPc>>

vars == <<pipelineVars, tz, metaVars, tabVars>>

outputs == [index |-> indexDoc, tags |-> tagsDir, sitemap |-> sitemapDoc]

\* update_site.py before its first run: no output yet
PipelineStart ==
  /\ walk = <<>>
  /\ clock = 0
  /\ indexDoc = NoIndex
  /\ tagsDir = NoTagsDir
  /\ sitemapDoc = NoSitemap
  /\ pages = <<>>
  /\ runs = 0

MetaIdle ==
  /\ mFile = NoFile
  /\ mMeta = EmptyMeta
  /\ mInfo = NoInfo
  /\ mPc = "idle"

TabIdle ==
  /\ tTemplate = <<>>
  /\ tRows = <<>>
  /\ tDone = 0
  /\ tLast = NoRow
  /\ tFiles = EmptyMeta
  /\ tPages = <<>>
  /\ tSite = NoSite
  /\ tPc = "idle"

Init ==
  /\ rootKind \in {"missing", "dir"}
  /\ tz \in UtcOffsets
  /\ PipelineStart
  /\ MetaIdle
  /\ TabIdle

\* the operator adds a content file
AddFile ==
  /\ rootKind = "dir"
  /\ Len(walk) < MaxFiles
  /\ \E f \in FileIds \ {walk[i] : i \in 1..Len(walk)} :
       \E k \in 0..Len(walk) :
          /\ walk_ok(insert_at(walk, k, f))
          /\ walk' = insert_at(walk, k, f)
  /\ runs' = 0
  /\ UNCHANGED <<rootKind, tz, clock, indexDoc, tagsDir, sitemapDoc, pages, metaVars, tabVars>>

\* the operator removes a content file
RemoveFile ==
  /\ \E k \in 1..Len(walk) : walk' = take(walk, k - 1) \o drop(walk, k)
  /\ runs' = 0
  /\ UNCHANGED <<rootKind, tz, clock, indexDoc, tagsDir, sitemapDoc, pages, metaVars, tabVars>>

\* the operator removes pages/, replaces it by a plain file, or creates it
ChangeRoot ==
  /\ \E k \in {"missing", "file", "dir"} : k # rootKind /\ rootKind' = k
  /\ walk' = <<>>
  /\ runs' = 0
  /\ UNCHANGED <<tz, clock, indexDoc, tagsDir, sitemapDoc, pages, metaVars, tabVars>>

\* one run of update_site.py
Main ==
  \E now \in clock..MaxClock :
    \E r \in main(outputs, rootKind, walk, tz, now) :
       /\ indexDoc' = r.out.index
       /\ tagsDir' = r.out.tags
       /\ sitemapDoc' = r.out.sitemap
       /\ pages' = r.pages
       /\ clock' = now
       /\ runs' = IF runs < 2 THEN runs + 1 ELSE runs
       /\ UNCHANGED <<rootKind, walk, tz, metaVars, tabVars>>

Next == AddFile \/ RemoveFile \/ ChangeRoot \/ Main

Spec == Init /\ [][Next]_vars

(***************************************************************************)
(* get_page_info on one content file, step by step                         *)
(***************************************************************************)

MetaInit ==
  /\ rootKind = "dir"
  /\ tz \in UtcOffsets
  /\ PipelineStart
  /\ TabIdle
  /\ mFile \in MetaFiles
  /\ mMeta = EmptyMeta
  /\ mInfo = NoInfo
  /\ mPc = "start"

\* meta = parse_meta_from_html(filepath)
ParseMeta ==
  /\ mPc = "start"
  /\ mMeta' = parse_meta_from_html(mFile.text)
  /\ mPc' = "parsed"
  /\ UNCHANGED <<pipelineVars, tz, tabVars, mFile, mInfo>>

\* the rest of get_page_info
BuildPage ==
  /\ mPc = "parsed"
  /\ mInfo' = page_info(mFile, mMeta, tz)
  /\ mPc' = "done"
  /\ UNCHANGED <<pipelineVars, tz, tabVars, mFile, mMeta>>

MetaNext == ParseMeta \/ BuildPage

SpecMeta == MetaInit /\ [][MetaNext]_vars

(***************************************************************************)
(* generate.py on one CSV file and one template                            *)
(***************************************************************************)

TabInit ==
  /\ rootKind = "missing"
  /\ tz = 0
  /\ PipelineStart
  /\ MetaIdle
  /\ tTemplate \in Templates
  /\ tRows \in CsvFiles
  /\ tDone = 0
  /\ tLast = NoRow
  /\ tFiles = EmptyMeta
  /\ tPages = <<>>
  /\ tSite = NoSite
  /\ tPc = "rows"

\* one iteration of the loop over the reader
WriteRow ==
  /\ tPc = "rows"
  /\ tDone < Len(tRows)
  /\ LET row  == tRows[tDone + 1]
         slug == row_get(row, <<"s","l","u","g">>)
         html == substitute(tTemplate, row)
     IN  /\ tLast' = [row |-> row, html |-> html]
         /\ tFiles' = dict_set(tFiles, slug, html)
         /\ tPages' = Append(tPages, [slug |-> slug, title |-> row_get(row, <<"t","i","t","l","e">>)])
  /\ tDone' = tDone + 1
  /\ UNCHANGED <<pipelineVars, tz, metaVars, tTemplate, tRows, tSite, tPc>>

\* after the loop: index.html and sitemap.xml
WriteSite ==
  /\ tPc = "rows"
  /\ tDone = Len(tRows)
  /\ tSite' = site_documents(tPages)
  /\ tPc' = "done"
  /\ UNCHANGED <<pipelineVars, tz, metaVars, tTemplate, tRows, tDone, tLast, tFiles, tPages>>

TabNext == WriteRow \/ WriteSite

SpecTab == TabInit /\ [][TabNext]_vars

(***************************************************************************)
(* Properties of the generation pass                                       *)
(***************************************************************************)

Range(seq) == {seq[i] : i \in 1..Len(seq)}

\* the last action was a run of main over an existing content root
RanOverRoot == runs >= 1 /\ rootKind = "dir"

\* the distinct tags carried by the pages of the last run
PageTags == UNION {Range(p.tags) : p \in Range(pages)}

\* the position of a page's file in the directory walk
WalkPos(p) == CHOOSE i \in 1..Len(walk) : Catalogue[walk[i]].rel = p.path

\* the .html files of the walk
HtmlWalk == {i \in 1..Len(walk) : is_html(walk[i])}

\* C1: after a run over an existing content root the sitemap holds exactly
\* 1 + |pages| + |distinct tags of the current pages| loc entries, whatever
\* earlier runs left in the output directory.
C1_SitemapCount ==
  RanOverRoot =>
    Len(sitemapDoc.locs) = 1 + Len(pages) + Cardinality(PageTags)

\* C2: a second run of main with the inputs unchanged leaves the index
\* items, every tag document and the sitemap as the first run left them;
\* only the timestamp of the index may differ.
C2_Idempotent ==
  [][(runs >= 1 /\ runs' >= 1) =>
        /\ indexDoc'.exists = indexDoc.exists
        /\ indexDoc'.items = indexDoc.items
        /\ tagsDir' = tagsDir
        /\ sitemapDoc' = sitemapDoc]_vars

\* a second run has happened over a corpus with tags, in an output directory
\* that also holds a tag document of an earlier corpus
C2_Witness ==
  /\ runs = 2
  /\ rootKind = "dir"
  /\ PageTags # {}
  /\ \E f \in Range(tagsDir.files) : f.tag \notin PageTags

\* C3: collect_pages returns the pages of the .html files of the walk,
\* sorted by date descending under plain string comparison, pages of equal
\* date in discovery order.
C3_SortedStable ==
  RanOverRoot =>
    /\ Len(pages) = Cardinality(HtmlWalk)
    /\ \A i \in HtmlWalk : \E k \in 1..Len(pages) : pages[k].path = Catalogue[walk[i]].rel
    /\ \A i, j \in 1..Len(pages) :
         i < j =>
           /\ ~str_less(pages[i].date, pages[j].date)
           /\ pages[i].date = pages[j].date => WalkPos(pages[i]) < WalkPos(pages[j])

\* a run collected b.html and then a.html, both dated 2024-01-01, and kept
\* them in that order
C3_Witness ==
  /\ RanOverRoot
  /\ Len(pages) = 2
  /\ pages[1].path = <<<<"b",".","h","t","m","l">>>> /\ pages[2].path = <<<<"a",".","h","t","m","l">>>>
  /\ pages[1].date = <<"2","0","2","4","-","0","1","-","0","1">> /\ pages[2].date = <<"2","0","2","4","-","0","1","-","0","1">>
  /\ WalkPos(pages[1]) < WalkPos(pages[2])

\* the pages carrying a tag, each once, in the order of the page list
RECURSIVE PagesWithTag(_, _)
PagesWithTag(ps, tag) ==
  IF ps = <<>> THEN <<>>
  ELSE IF tag \in Range(Head(ps).tags)
       THEN <<[url_path |-> Head(ps).url_path, title |-> Head(ps).title,
               date |-> Head(ps).date]>> \o PagesWithTag(Tail(ps), tag)
  ELSE PagesWithTag(Tail(ps), tag)

\* C4: every tag of a page has exactly one tag document, which lists exactly
\* the pages carrying the tag, each once, by date descending with ties in
\* corpus order.
C4_TagDocuments ==
  RanOverRoot =>
    \A tag \in PageTags :
      /\ Cardinality({i \in 1..Len(tagsDir.files) : tagsDir.files[i].tag = tag}) = 1
      /\ \A f \in Range(tagsDir.files) :
           f.tag = tag => f.items = PagesWithTag(pages, tag)

\* C6: a run of main while the content root is missing or not a directory
\* writes nothing: index, tag directory and sitemap stay as they were.
C6_NoWriteWithoutRoot ==
  [][(rootKind # "dir" /\ runs' >= 1) =>
        UNCHANGED <<indexDoc, tagsDir, sitemapDoc>>]_vars

\* main has run without a content root, over the output of an earlier run
C6_Witness ==
  /\ runs >= 1
  /\ rootKind # "dir"
  /\ indexDoc.exists /\ sitemapDoc.exists /\ tagsDir.files # <<>>

\* C10: the sitemap a run writes is the sitemap the same pages give in an
\* empty output directory: it does not depend on what tags/ holds.
C10_SitemapFromPagesAlone ==
  RanOverRoot =>
    sitemapDoc \in
      {o.sitemap :
         o \in render_all([index |-> NoIndex, tags |-> NoTagsDir, sitemap |-> NoSitemap],
                          pages, clock)}

(***************************************************************************)
(* Properties of parse_meta_from_html and get_page_info                    *)
(***************************************************************************)

Min(S) == CHOOSE x \in S : \A y \in S \ {x} : x < y

Max(S) == CHOOSE x \in S : \A y \in S : y <= x

\* s without its leading and trailing whitespace
Trim(s) ==
  LET solid == {i \in 1..Len(s) : s[i] \notin {" ", "\t", "\n", "\r"}}
  IN  IF solid = {} THEN <<>> ELSE SubSeq(s, Min(solid), Max(solid))

\* an opening marker starts at position i of t (1-based) and its META ends
\* at position g
OpensAt(t, i, g) ==
  /\ i + 3 <= g - 4 /\ g <= Len(t)
  /\ SubSeq(t, i, i + 3) = <<"<","!","-","-">>
  /\ \A k \in (i + 4)..(g - 4) : t[k] \in {" ", "\t", "\n", "\r"}
  /\ t[g - 3] \in {"M", "m"} /\ t[g - 2] \in {"E", "e"}
  /\ t[g - 1] \in {"T", "t"} /\ t[g] \in {"A", "a"}

\* the metadata blocks of t: opening marker at i, content from g + 1 up to
\* the closing marker at e
Blocks(t) ==
  LET starts == {i \in 1..Len(t) : i + 3 <= Len(t) /\ t[i] = "<" /\ t[i + 1] = "!"}
      opens  == UNION {{[i |-> i, g |-> g] : g \in {g \in (i + 7)..Len(t) : OpensAt(t, i, g)}} :
                         i \in starts}
      closes == {e \in 1..Len(t) : e + 2 <= Len(t) /\ SubSeq(t, e, e + 2) = <<"-","-",">">>}
  IN  UNION {{[i |-> o.i, g |-> o.g, e |-> e] : e \in {e \in closes : e > o.g}} :
               o \in opens}

\* the first block: the earliest opening marker, closed at the nearest "-->"
FirstBlock(t) ==
  CHOOSE b \in Blocks(t) :
    \A c \in Blocks(t) : b.i < c.i \/ (b.i = c.i /\ b.e <= c.e)

FirstColon(line) == Min({i \in 1..Len(line) : line[i] = ":"})

LineKey(line) == str_lower(Trim(SubSeq(line, 1, FirstColon(line) - 1)))

LineValue(line) == Trim(SubSeq(line, FirstColon(line) + 1, Len(line)))

\* the mapping the lines of a block give: one entry per line with a ':',
\* a later line replacing an earlier one of the same key
MetaOfBlock(block) ==
  LET lines == str_splitlines(block)
      keyed == {n \in 1..Len(lines) : ":" \in Range(lines[n])}
  IN  [k \in {LineKey(lines[n]) : n \in keyed} |->
         LineValue(lines[Max({n \in keyed : LineKey(lines[n]) = k})])]

ExpectedMeta(t) ==
  IF Blocks(t) = {} THEN EmptyMeta
  ELSE LET b == FirstBlock(t)
       IN  MetaOfBlock(SubSeq(t, b.g + 1, b.e - 1))

\* C7: parse_meta_from_html returns the mapping of the first metadata block
\* alone (key lowercased and trimmed, value trimmed, lines without ':'
\* ignored), and the empty mapping when the file has no block.
C7_FirstBlockOnly ==
  mPc \in {"parsed", "done"} => mMeta = ExpectedMeta(mFile.text)

\* a file with two metadata blocks was parsed, the first holding a title line
\* and a line without ':'
C7_Witness ==
  /\ mPc = "parsed"
  /\ Cardinality({b.i : b \in Blocks(mFile.text)}) >= 2
  /\ mFile.text = <<"<","p",">","h","i","<","/","p",">","\n","<","!","-","-"," ","M","E","T","A","\n">> \o <<"n","o"," ","s","e","p","a","r","a","t","o","r","\n">> \o <<"t","i","t","l","e",":"," ","A","l","p","h","a","\n">>
                  \o <<"-","-",">">> \o <<"\n","<","!","-","-"," ","M","E","T","A","\n","t","i","t","l","e",":"," ","L","a","t","e","\n","t","a","g","s",":"," ","l","a","t","e","\n","d","a","t","e",":"," ","2","0","0","0","-","0","1","-","0","1","\n","-","-",">">>
  /\ DOMAIN mMeta = {<<"t","i","t","l","e">>}
  /\ mMeta[<<"t","i","t","l","e">>] = <<"A","l","p","h","a">>

\* the pieces of v between its commas, in order
Pieces(v) ==
  LET cuts == {0, Len(v) + 1} \cup {i \in 1..Len(v) : v[i] = ","}
      lows == cuts \ {Len(v) + 1}
      nth(n) == CHOOSE c \in lows : Cardinality({d \in lows : d <= c}) = n
  IN  [n \in 1..Cardinality(lows) |->
         SubSeq(v, nth(n) + 1, Min({c \in cuts : c > nth(n)}) - 1)]

\* the trimmed pieces that are not empty, in order
ExpectedTags(v) ==
  LET ps   == Pieces(v)
      kept == {n \in 1..Len(ps) : Trim(ps[n]) # <<>>}
      nth(n) == CHOOSE k \in kept : Cardinality({j \in kept : j <= k}) = n
  IN  [n \in 1..Cardinality(kept) |-> Trim(ps[nth(n)])]

\* C8: tags is empty without a tags entry, otherwise the tags value split
\* on commas, each piece trimmed, empty pieces dropped, order and duplicates
\* kept.
C8_TagsSplit ==
  mPc = "done" =>
    mInfo.tags = IF <<"t","a","g","s">> \in DOMAIN mMeta THEN ExpectedTags(mMeta[<<"t","a","g","s">>]) ELSE <<>>

\* the page of a file with the line `tags: a, b , ,c` was built
C8_Witness ==
  /\ mPc = "done"
  /\ <<"t","a","g","s">> \in DOMAIN mMeta
  /\ mMeta[<<"t","a","g","s">>] = <<"a",","," ","b"," ",","," ",",","c">>
  /\ mInfo.tags = <<<<"a">>, <<"b">>, <<"c">>>>

\* the base name without its extension
Stem(rel) ==
  LET name == rel[Len(rel)]
      dots == {i \in 1..Len(name) : name[i] = "."}
  IN  IF dots = {} \/ Max(dots) = 1 \/ Max(dots) = Len(name) THEN name
      ELSE SubSeq(name, 1, Max(dots) - 1)

DigitValue(c) == CHOOSE n \in 0..9 : <<"0","1","2","3","4","5","6","7","8","9">>[n + 1] = c

IsDigits(s) == \A i \in 1..Len(s) : s[i] \in {"0","1","2","3","4","5","6","7","8","9"}

RECURSIVE Number(_)
Number(s) == IF s = <<>> THEN 0 ELSE 10 * Number(SubSeq(s, 1, Len(s) - 1)) + DigitValue(s[Len(s)])

IsLeap(y) == (y % 4 = 0 /\ y % 100 # 0) \/ y % 400 = 0

DaysBeforeMonth(y, m) ==
  <<0, 31, 59, 90, 120, 151, 181, 212, 243, 273, 304, 334>>[m]
  + (IF m > 2 /\ IsLeap(y) THEN 1 ELSE 0)

DaysInMonth(y, m) ==
  IF m = 2 THEN (IF IsLeap(y) THEN 29 ELSE 28)
  ELSE IF m \in {4, 6, 9, 11} THEN 30 ELSE 31

LeapsBefore(y) == (y - 1) \div 4 - (y - 1) \div 100 + (y - 1) \div 400

\* days from 1970-01-01 to the date y-m-d
DayNumber(y, m, d) ==
  365 * (y - 1970) + LeapsBefore(y) - LeapsBefore(1970) + DaysBeforeMonth(y, m) + d - 1

\* s is the date YYYY-MM-DD of the calendar day holding local second t
IsDateOf(s, t) ==
  /\ Len(s) = 10 /\ s[5] = "-" /\ s[8] = "-"
  /\ IsDigits(SubSeq(s, 1, 4)) /\ IsDigits(SubSeq(s, 6, 7)) /\ IsDigits(SubSeq(s, 9, 10))
  /\ LET y == Number(SubSeq(s, 1, 4))
         m == Number(SubSeq(s, 6, 7))
         d == Number(SubSeq(s, 9, 10))
     IN  /\ m \in 1..12 /\ d \in 1..DaysInMonth(y, m)
         /\ DayNumber(y, m, d) * 86400 <= t
         /\ t < (DayNumber(y, m, d) + 1) * 86400

\* C9: title is the metadata title when present and non-empty, else the file
\* name without extension; date is the metadata date verbatim whenever a
\* date entry is present, else the local modification date as YYYY-MM-DD.
C9_Defaults ==
  mPc = "done" =>
    /\ mInfo.title = IF <<"t","i","t","l","e">> \in DOMAIN mMeta /\ mMeta[<<"t","i","t","l","e">>] # <<>>
                     THEN mMeta[<<"t","i","t","l","e">>] ELSE Stem(mFile.rel)
    /\ IF <<"d","a","t","e">> \in DOMAIN mMeta THEN mInfo.date = mMeta[<<"d","a","t","e">>]
       ELSE IsDateOf(mInfo.date, mFile.mtime + tz)

\* the page of a file without a metadata block was built: sub/c.b.HTML,
\* modified 2024-02-29 23:59:59 UTC on a host nine hours east
C9_Witness ==
  /\ mPc = "done"
  /\ Blocks(mFile.text) = {}
  /\ mMeta = EmptyMeta
  /\ mInfo.title = <<"c",".","b">>
  /\ mInfo.date = <<"2","0","2","4","-","0","3","-","0","1">>

(***************************************************************************)
(* Properties of generate.py                                               *)
(***************************************************************************)

Contains(s, sub) == \E i \in 0..(Len(s) - Len(sub)) : SubSeq(s, i + 1, i + Len(sub)) = sub

TemplateKeys == {<<"t","i","t","l","e">>, <<"s","l","u","g">>, <<"n","o","t","e">>, <<"m","i","s","s","i","n","g">>}

\* the row has a column key with a non-empty value
HasValue(row, key) ==
  \E i \in 1..Len(row) : row[i].key = key /\ ~row[i].none /\ row[i].value # <<>>

\* C5: in the document written for a row, no placeholder {{key}} of the
\* template whose key has no column value in the row remains: each was
\* replaced by the empty string.
C5_UnmatchedPlaceholdersEmptied ==
  tDone >= 1 =>
    \A k \in TemplateKeys :
      (Contains(tTemplate, placeholder(k)) /\ ~HasValue(tLast.row, k))
        => ~Contains(tLast.html, placeholder(k))

====
